---- MODULE Spec2Model ----
(***************************************************************************)
(* A model of src/class/prte_object.c: the lazy, lock-protected            *)
(* initialisation of class descriptors (prte_class_initialize), the        *)
(* registry of allocated constructor/destructor arrays (save_class,        *)
(* expand_array) and the global release (prte_class_finalize).             *)
(*                                                                         *)
(* Program counters are named after the source line a thread is about to   *)
(* execute ("l92" = the unlocked test at line 92, ...).  Memory reads and  *)
(* writes are sequentially consistent.                                     *)
(***************************************************************************)
EXTENDS Integers, Sequences, FiniteSets, TLC

VARIABLES
    desc,           \* the prte_class_t descriptors, by class id
    epoch,          \* prte_class_init_epoch
    lock,           \* class_lock: 0 when free, else the holding thread
    classes,        \* the registry array `classes`: its state and its slots
    num_classes,    \* num_classes
    max_classes,    \* max_classes
    heap,           \* the malloc'ed constructor/destructor blocks
    pc,             \* per thread: position inside prte_class_initialize
    loc,            \* per thread: the locals of prte_class_initialize
    fpc,            \* position of the caller of prte_class_finalize
    fin,            \* locals of prte_class_finalize (i, return value)
    exited,         \* "no", or which exit(-1) ended the process
    ub,             \* "no", or the invalid memory operation that happened
    hist            \* history: what has been computed, and snapshots taken
                    \* at the entry of prte_class_finalize

vars == <<desc, epoch, lock, classes, num_classes, max_classes, heap,
          pc, loc, fpc, fin, exited, ub, hist>>

----------------------------------------------------------------------------
(* Bounds of the model *)

\* threads calling prte_class_initialize (concurrent specifications)
NumThreads == 2
\* declared classes below prte_object_t_class (concurrent specifications)
NumClasses == 1
\* declared classes in the single-threaded specification of the chain layout
MaxDepth == 3
\* threads of the specification with an unsynchronised prte_class_finalize
RaceThreads == 2
\* calls of prte_class_finalize in that specification
MaxFinalize == 1
\* INT_MAX of the build, scaled down so that the wrap of the epoch is reached
INT_MAX == 2
\* declared classes beyond one increment of the registry array, in the
\* specification of its growth
GrowClasses == 1

(* Program constants *)

\* static const int increment = 10
increment == 10
\* the value prte_class_finalize returns
PRTE_SUCCESS == "PRTE_SUCCESS"

----------------------------------------------------------------------------
(* Values *)

NoClass == -1                       \* a NULL prte_class_t pointer
Root == 0                           \* &prte_object_t_class
NULLP == <<0, 0>>                   \* a NULL data pointer
JUNKP == <<-1, -1>>                 \* an uninitialised pointer slot
NULLFN == <<"null", -1>>            \* a NULL function pointer
JUNKFN == <<"junk", -1>>            \* an uninitialised function slot
Ctor(k) == <<"ctor", k>>            \* the constructor class k declares
Dtor(k) == <<"dtor", k>>            \* the destructor class k declares

Classes == DOMAIN desc
Threads == DOMAIN pc
Blocks == DOMAIN heap

FreeBlock == [live |-> FALSE, owner |-> NoClass, mem |-> <<>>]

Loc0 == [cls |-> NoClass, c |-> NoClass, cc |-> 0, dc |-> 0, i |-> 0,
         ca |-> NULLP, da |-> NULLP]

Fin0 == [i |-> 0, rc |-> "none", preEpoch |-> 0, preCurrent |-> {},
         preBlocks |-> {}]

----------------------------------------------------------------------------
(* The descriptors *)

\* prte_object_t_class without the mark "initialized".
RootStampZero ==
    [cls_name |-> Root, cls_parent |-> NoClass,
     cls_construct |-> NULLFN, cls_destruct |-> NULLFN,
     cls_initialized |-> 0, cls_depth |-> 0,
     cls_construct_array |-> NULLP, cls_destruct_array |-> NULLP,
     cls_sizeof |-> Root]

\* prte_object_t_class: no parent, no constructor, no destructor, marked
\* initialized (1), depth 0, no arrays.
prte_object_t_class ==
    [cls_name |-> Root, cls_parent |-> NoClass,
     cls_construct |-> NULLFN, cls_destruct |-> NULLFN,
     cls_initialized |-> 1, cls_depth |-> 0,
     cls_construct_array |-> NULLP, cls_destruct_array |-> NULLP,
     cls_sizeof |-> Root]

\* A class declared by a caller: parent, optional constructor and destructor,
\* and the computed fields unset.
UserClass(k, parent, hasC, hasD) ==
    [cls_name |-> k, cls_parent |-> parent,
     cls_construct |-> IF hasC THEN Ctor(k) ELSE NULLFN,
     cls_destruct |-> IF hasD THEN Dtor(k) ELSE NULLFN,
     cls_initialized |-> 0, cls_depth |-> 0,
     cls_construct_array |-> NULLP, cls_destruct_array |-> NULLP,
     cls_sizeof |-> k]

\* The hierarchies of the concurrent specifications: a single line
\* prte_object_t <- 1 <- 2 <- ..., odd classes declare a constructor and
\* classes from the second on a destructor (for classes 1, 2, 3 this is the
\* scenario "constructors on A and C, destructors on B and C").
LineHierarchy(n) ==
    [k \in 0..n |->
        IF k = Root THEN prte_object_t_class
        ELSE UserClass(k, k - 1, k % 2 = 1, k >= 2)]

\* Every line of classes 1..n: class k derives from class k-1, class 1 from
\* prte_object_t or from no class (top); any subset of the classes declares
\* a constructor, any subset a destructor.
AllHierarchies(n) ==
    { [k \in 0..n |->
          IF k = Root THEN prte_object_t_class
          ELSE UserClass(k, IF k = 1 THEN top ELSE k - 1,
                         k \in cs, k \in ds)] :
        top \in {NoClass, Root},
        cs \in SUBSET (1..n), ds \in SUBSET (1..n) }

----------------------------------------------------------------------------
(* Memory *)

\* p points into a live block, at one of its slots.
ValidPtr(h, p) ==
    /\ p[1] \in DOMAIN h
    /\ h[p[1]].live
    /\ p[2] >= 0
    /\ p[2] < Len(h[p[1]].mem)

\* *p = v
Store(h, p, v) == [h EXCEPT ![p[1]].mem[p[2] + 1] = v]

\* *p
Load(h, p) == h[p[1]].mem[p[2] + 1]

\* p + n
PtrAdd(p, n) == <<p[1], p[2] + n>>

\* The NULL-terminated array a consumer reads from p: the slots from p up to
\* and including the first NULL (or up to the end of the block).
RECURSIVE ReadChain(_, _)
ReadChain(h, p) ==
    IF ~ValidPtr(h, p) THEN <<>>
    ELSE IF Load(h, p) = NULLFN THEN <<NULLFN>>
    ELSE <<Load(h, p)>> \o ReadChain(h, PtrAdd(p, 1))

----------------------------------------------------------------------------
(* prte_class_initialize *)

Running == exited = "no" /\ ub = "no"

\* Test92 with the first test left out: every call goes on to the lock.
Test92Never(k) == FALSE

\* if (prte_class_init_epoch == cls->cls_initialized), before the lock
Test92(k) == epoch = desc[k].cls_initialized

\* Test101 with the second test left out: the lock is taken and the
\* computation follows at once.
Test101Never(k) == FALSE

\* if (prte_class_init_epoch == cls->cls_initialized), under the lock
Test101(k) == epoch = desc[k].cls_initialized

\* The walk for (c = cls; c; c = c->cls_parent) of lines 114-122, from class
\* c with the counters acc = <<depth, constructors, destructors>>.
RECURSIVE Walk(_, _)
Walk(c, acc) ==
    IF c = NoClass THEN acc
    ELSE Walk(desc[c].cls_parent,
              <<acc[1] + 1,
                acc[2] + (IF desc[c].cls_construct # NULLFN THEN 1 ELSE 0),
                acc[3] + (IF desc[c].cls_destruct # NULLFN THEN 1 ELSE 0)>>)

\* Count without the reset of line 111: the walk adds to the depth the
\* descriptor already holds.
CountNoReset(k) == Walk(k, <<desc[k].cls_depth, 0, 0>>)

\* Lines 111-122: cls->cls_depth = 0 and both counters 0, then the walk.
Count(k) == Walk(k, <<0, 0, 0>>)

\* BlockSlots with room for one end marker only.
BlockSlotsOneMarker(cc, dc) == cc + dc + 1

\* The number of slots malloc is asked for at lines 129-130.
BlockSlots(cc, dc) == cc + dc + 2

\* DestructStart without the slot of the constructors' end marker.
DestructStartNoMarker(p, cc) == PtrAdd(p, cc)

\* cls->cls_destruct_array = cls->cls_construct_array + count + 1 (line 136)
DestructStart(p, cc) == PtrAdd(p, cc + 1)

\* ConstructEnd one slot too far: the constructors start behind their end
\* marker's slot.
ConstructEndPastMarker(p, cc) == PtrAdd(p, cc + 1)

\* cls_construct_array = cls->cls_construct_array + count (line 142)
ConstructEnd(p, cc) == PtrAdd(p, cc)

\* The blocks malloc may return: the allocator is first-fit, it hands out the
\* lowest block that is not in use (none when the heap is exhausted).
MallocChoices ==
    {b \in Blocks : ~heap[b].live /\ \A x \in Blocks : x < b => heap[x].live}

\* the caller enters prte_class_initialize(&class k)
Call(t, k) ==
    /\ Running
    /\ pc[t] = "idle"
    /\ pc' = [pc EXCEPT ![t] = "l92"]
    /\ loc' = [loc EXCEPT ![t] = [Loc0 EXCEPT !.cls = k]]
    /\ hist' = [hist EXCEPT !.overlap = @ \/ fpc # "idle"]
    /\ UNCHANGED <<desc, epoch, lock, classes, num_classes, max_classes,
                   heap, fpc, fin, exited, ub>>

\* L92 with the test made under the lock: the caller waits for the lock
\* before it reads the stamp, and releases it at once.
L92Locked(t) ==
    /\ Running
    /\ pc[t] = "l92"
    /\ lock = 0
    /\ IF Test92(loc[t].cls)
         THEN /\ pc' = [pc EXCEPT ![t] = "idle"]
              /\ loc' = [loc EXCEPT ![t] = Loc0]
         ELSE /\ pc' = [pc EXCEPT ![t] = "l95"]
              /\ loc' = loc
    /\ UNCHANGED <<desc, epoch, lock, classes, num_classes, max_classes,
                   heap, fpc, fin, exited, ub, hist>>

\* lines 92-94: the test without the lock, and the return
L92(t) ==
    /\ Running
    /\ pc[t] = "l92"
    /\ IF Test92(loc[t].cls)
         THEN /\ pc' = [pc EXCEPT ![t] = "idle"]
              /\ loc' = [loc EXCEPT ![t] = Loc0]
         ELSE /\ pc' = [pc EXCEPT ![t] = "l95"]
              /\ loc' = loc
    /\ UNCHANGED <<desc, epoch, lock, classes, num_classes, max_classes,
                   heap, fpc, fin, exited, ub, hist>>

\* line 95: prte_mutex_lock(&class_lock)
L95(t) ==
    /\ Running
    /\ pc[t] = "l95"
    /\ lock = 0
    /\ lock' = t
    /\ pc' = [pc EXCEPT ![t] = "l101"]
    /\ UNCHANGED <<desc, epoch, classes, num_classes, max_classes, heap,
                   loc, fpc, fin, exited, ub, hist>>

\* L101 whose early return leaves out prte_mutex_unlock (line 102).
L101NoUnlock(t) ==
    /\ Running
    /\ pc[t] = "l101"
    /\ IF Test101(loc[t].cls)
         THEN /\ pc' = [pc EXCEPT ![t] = "idle"]
              /\ loc' = [loc EXCEPT ![t] = Loc0]
         ELSE /\ pc' = [pc EXCEPT ![t] = "l111"]
              /\ loc' = loc
    /\ UNCHANGED <<desc, epoch, lock, classes, num_classes, max_classes,
                   heap, fpc, fin, exited, ub, hist>>

\* lines 101-104: the test under the lock; unlock and return
L101(t) ==
    /\ Running
    /\ pc[t] = "l101"
    /\ IF Test101(loc[t].cls)
         THEN /\ lock' = 0
              /\ pc' = [pc EXCEPT ![t] = "idle"]
              /\ loc' = [loc EXCEPT ![t] = Loc0]
         ELSE /\ lock' = lock
              /\ pc' = [pc EXCEPT ![t] = "l111"]
              /\ loc' = loc
    /\ UNCHANGED <<desc, epoch, classes, num_classes, max_classes, heap,
                   fpc, fin, exited, ub, hist>>

\* AfterCount that also marks the class initialized, before the block is
\* allocated and filled.
AfterCountStamped(k, n) ==
    [desc EXCEPT ![k].cls_depth = n[1], ![k].cls_initialized = epoch]

\* AfterCount that also writes the depth of the parent, as a walk that
\* counts into c->cls_depth would.
AfterCountParentToo(k, n) ==
    [j \in DOMAIN desc |->
        IF j = k THEN [desc[j] EXCEPT !.cls_depth = n[1]]
        ELSE IF j = desc[k].cls_parent
               THEN [desc[j] EXCEPT !.cls_depth = n[1] - 1]
        ELSE desc[j]]

\* The descriptors after lines 111-122: of class k only cls_depth is written.
AfterCount(k, n) == [desc EXCEPT ![k].cls_depth = n[1]]

\* lines 111-122: the depth and the two counters
L111(t) ==
    /\ Running
    /\ pc[t] = "l111"
    /\ LET k == loc[t].cls
           n == Count(k)
       IN /\ desc' = AfterCount(k, n)
          /\ loc' = [loc EXCEPT ![t].cc = n[2], ![t].dc = n[3]]
    /\ pc' = [pc EXCEPT ![t] = "l129"]
    /\ UNCHANGED <<epoch, lock, classes, num_classes, max_classes, heap,
                   fpc, fin, exited, ub, hist>>

\* lines 129-136: malloc of the block.  It may fail: the NULL is stored,
\* the lock released and the process exits.
L129(t) ==
    /\ Running
    /\ pc[t] = "l129"
    /\ LET k == loc[t].cls IN
       \/ /\ desc' = [desc EXCEPT ![k].cls_construct_array = NULLP]
          /\ lock' = 0
          /\ exited' = "malloc"
          /\ UNCHANGED <<heap, pc, hist>>
       \/ \E b \in MallocChoices :
            /\ heap' = [heap EXCEPT ![b] =
                          [live |-> TRUE, owner |-> k,
                           mem |-> [j \in 1..BlockSlots(loc[t].cc, loc[t].dc)
                                       |-> JUNKFN]]]
            /\ desc' = [desc EXCEPT
                          ![k].cls_construct_array = <<b, 0>>,
                          ![k].cls_destruct_array =
                              DestructStart(<<b, 0>>, loc[t].cc)]
            /\ pc' = [pc EXCEPT ![t] = "l142"]
            /\ hist' = [hist EXCEPT !.nalloc[k] = IF @ < 2 THEN @ + 1 ELSE @]
            /\ UNCHANGED <<lock, exited>>
    /\ UNCHANGED <<epoch, classes, num_classes, max_classes, loc, fpc, fin,
                   ub>>

\* lines 142-146: the two cursors, c = cls, and the constructors' end marker
L142(t) ==
    /\ Running
    /\ pc[t] = "l142"
    /\ LET k == loc[t].cls
           ca == ConstructEnd(desc[k].cls_construct_array, loc[t].cc)
       IN /\ loc' = [loc EXCEPT ![t].ca = ca,
                                ![t].da = desc[k].cls_destruct_array,
                                ![t].c = k,
                                ![t].i = 0]
          /\ IF ValidPtr(heap, ca)
               THEN heap' = Store(heap, ca, NULLFN) /\ ub' = ub
               ELSE heap' = heap /\ ub' = "bad write"
    /\ pc' = [pc EXCEPT ![t] = "l147"]
    /\ UNCHANGED <<desc, epoch, lock, classes, num_classes, max_classes,
                   fpc, fin, exited, hist>>

\* The block after one pass of the loop body (lines 148-155) for class c
\* with the cursors ca and da; <<heap, ca, da, ok>>.
FillStep(h, c, ca, da) ==
    LET hasC == desc[c].cls_construct # NULLFN
        hasD == desc[c].cls_destruct # NULLFN
        ca2 == IF hasC THEN PtrAdd(ca, -1) ELSE ca
        okC == hasC => ValidPtr(h, ca2)
        h2 == IF hasC /\ okC THEN Store(h, ca2, desc[c].cls_construct) ELSE h
        okD == hasD => ValidPtr(h2, da)
        h3 == IF hasD /\ okD THEN Store(h2, da, desc[c].cls_destruct) ELSE h2
        da2 == IF hasD THEN PtrAdd(da, 1) ELSE da
    IN <<h3, ca2, da2, okC /\ okD>>

\* lines 147-157: one iteration of for (i = 0; i < cls->cls_depth; i++)
L147(t) ==
    /\ Running
    /\ pc[t] = "l147"
    /\ IF loc[t].i < desc[loc[t].cls].cls_depth
         THEN IF loc[t].c = NoClass
                THEN /\ ub' = "null read"
                     /\ UNCHANGED <<heap, loc, pc>>
                ELSE LET r == FillStep(heap, loc[t].c, loc[t].ca, loc[t].da)
                     IN /\ heap' = r[1]
                        /\ loc' = [loc EXCEPT
                                     ![t].ca = r[2],
                                     ![t].da = r[3],
                                     ![t].c = desc[loc[t].c].cls_parent,
                                     ![t].i = @ + 1]
                        /\ ub' = IF r[4] THEN ub ELSE "bad write"
                        /\ pc' = pc
         ELSE /\ pc' = [pc EXCEPT ![t] = "l158"]
              /\ UNCHANGED <<heap, loc, ub>>
    /\ UNCHANGED <<desc, epoch, lock, classes, num_classes, max_classes,
                   fpc, fin, exited, hist>>

\* L158 without the store: the destructors' end marker is never written.
L158NoMarker(t) ==
    /\ Running
    /\ pc[t] = "l158"
    /\ pc' = [pc EXCEPT ![t] = "l160"]
    /\ UNCHANGED <<desc, epoch, lock, classes, num_classes, max_classes,
                   heap, loc, fpc, fin, exited, ub, hist>>

\* line 158: the destructors' end marker
L158(t) ==
    /\ Running
    /\ pc[t] = "l158"
    /\ IF ValidPtr(heap, loc[t].da)
         THEN heap' = Store(heap, loc[t].da, NULLFN) /\ ub' = ub
         ELSE heap' = heap /\ ub' = "bad write"
    /\ pc' = [pc EXCEPT ![t] = "l160"]
    /\ UNCHANGED <<desc, epoch, lock, classes, num_classes, max_classes,
                   loc, fpc, fin, exited, hist>>

\* line 160: cls->cls_initialized = prte_class_init_epoch
L160(t) ==
    /\ Running
    /\ pc[t] = "l160"
    /\ desc' = [desc EXCEPT ![loc[t].cls].cls_initialized = epoch]
    /\ hist' = [hist EXCEPT !.stamped = @ \cup {loc[t].cls}]
    /\ pc' = [pc EXCEPT ![t] = "l198"]
    /\ UNCHANGED <<epoch, lock, classes, num_classes, max_classes, heap,
                   loc, fpc, fin, exited, ub>>

----------------------------------------------------------------------------
(* save_class and expand_array *)

\* Expanded whose loop starts at 0 instead of num_classes: every slot is
\* set to NULL.
ExpandedFromZero(old, num, n) == [j \in 1..n |-> NULLP]

\* The array after expand_array's realloc to n slots and its loop over
\* num_classes..max_classes-1: realloc keeps the old slots, the loop NULLs
\* the slots from num_classes on.
Expanded(old, num, n) ==
    [j \in 1..n |->
        IF j > num THEN NULLP
        ELSE IF j <= Len(old) THEN old[j]
        ELSE JUNKP]

\* if (num_classes >= max_classes) of line 198
MustExpand == num_classes >= max_classes

\* line 198, with expand_array (lines 210-218) when the array is full; the
\* realloc may fail, and the process exits.
L198(t) ==
    /\ Running
    /\ pc[t] = "l198"
    /\ IF MustExpand
         THEN /\ max_classes' = max_classes + increment
              /\ IF classes.st = "freed"
                   THEN /\ ub' = "realloc of a freed array"
                        /\ UNCHANGED <<classes, exited, pc>>
                   ELSE \/ /\ classes' = [st |-> "null", arr |-> <<>>]
                           /\ exited' = "realloc"
                           /\ UNCHANGED <<ub, pc>>
                        \/ /\ classes' =
                                [st |-> "live",
                                 arr |-> Expanded(classes.arr, num_classes,
                                                  max_classes')]
                           /\ pc' = [pc EXCEPT ![t] = "l202"]
                           /\ UNCHANGED <<ub, exited>>
         ELSE /\ pc' = [pc EXCEPT ![t] = "l202"]
              /\ UNCHANGED <<max_classes, classes, exited, ub>>
    /\ UNCHANGED <<desc, epoch, lock, num_classes, heap, loc, fpc, fin,
                   hist>>

\* L202 without ++num_classes: the next append overwrites the slot.
L202NoIncrement(t) ==
    /\ Running
    /\ pc[t] = "l202"
    /\ IF classes.st = "live" /\ num_classes < Len(classes.arr)
         THEN /\ classes' = [classes EXCEPT !.arr[num_classes + 1] =
                                desc[loc[t].cls].cls_construct_array]
              /\ pc' = [pc EXCEPT ![t] = "l165"]
              /\ ub' = ub
         ELSE /\ ub' = IF classes.st = "freed"
                           THEN "write to the freed array"
                           ELSE "bad array write"
              /\ UNCHANGED <<classes, pc>>
    /\ UNCHANGED <<desc, epoch, lock, num_classes, max_classes, heap, loc,
                   fpc, fin, exited, hist>>

\* lines 202-203: classes[num_classes] = cls->cls_construct_array;
\* ++num_classes
L202(t) ==
    /\ Running
    /\ pc[t] = "l202"
    /\ IF classes.st = "live" /\ num_classes < Len(classes.arr)
         THEN /\ classes' = [classes EXCEPT !.arr[num_classes + 1] =
                                desc[loc[t].cls].cls_construct_array]
              /\ num_classes' = num_classes + 1
              /\ pc' = [pc EXCEPT ![t] = "l165"]
              /\ ub' = ub
         ELSE /\ ub' = IF classes.st = "freed"
                           THEN "write to the freed array"
                           ELSE "bad array write"
              /\ UNCHANGED <<classes, num_classes, pc>>
    /\ UNCHANGED <<desc, epoch, lock, max_classes, heap, loc, fpc, fin,
                   exited, hist>>

\* What a reader of descriptor k sees: its depth and its two arrays.
Snapshot(k) ==
    [depth |-> desc[k].cls_depth,
     cchain |-> ReadChain(heap, desc[k].cls_construct_array),
     dchain |-> ReadChain(heap, desc[k].cls_destruct_array)]

\* line 165: prte_mutex_unlock(&class_lock), and the return.  The history
\* keeps the result of the first computation of each descriptor (as long as
\* no prte_class_finalize has overlapped a prte_class_initialize).
L165(t) ==
    /\ Running
    /\ pc[t] = "l165"
    /\ lock' = 0
    /\ pc' = [pc EXCEPT ![t] = "idle"]
    /\ loc' = [loc EXCEPT ![t] = Loc0]
    /\ hist' = [hist EXCEPT
                  !["first"][loc[t].cls] =
                      IF @ = <<>> /\ ~hist.overlap
                        THEN <<Snapshot(loc[t].cls)>> ELSE @]
    /\ UNCHANGED <<desc, epoch, classes, num_classes, max_classes, heap,
                   fpc, fin, exited, ub>>

----------------------------------------------------------------------------
(* prte_class_finalize *)

\* NextEpoch that stops at INT_MAX instead of starting again at 1.
NextEpochSaturating(e) == IF INT_MAX = e THEN e ELSE e + 1

\* lines 175-179: the next epoch
NextEpoch(e) == IF INT_MAX = e THEN 1 ELSE e + 1

\* the caller enters prte_class_finalize(); as long as no
\* prte_class_finalize has overlapped a prte_class_initialize, the history
\* keeps the epoch, the set of current descriptors and the set of live
\* blocks at the call
FinCall ==
    /\ Running
    /\ fpc = "idle"
    /\ fpc' = "f175"
    /\ fin' = IF hist.overlap \/ \E t \in Threads : pc[t] # "idle"
                THEN Fin0
                ELSE [Fin0 EXCEPT
                        !.preEpoch = epoch,
                        !.preCurrent = {k \in Classes :
                                           desc[k].cls_initialized = epoch},
                        !.preBlocks = {b \in Blocks : heap[b].live}]
    /\ hist' = [hist EXCEPT
                  !.finalized = TRUE,
                  !.overlap = @ \/ (\E t \in Threads : pc[t] # "idle")]
    /\ UNCHANGED <<desc, epoch, lock, classes, num_classes, max_classes,
                   heap, pc, loc, exited, ub>>

\* lines 175-179
F175 ==
    /\ Running
    /\ fpc = "f175"
    /\ epoch' = NextEpoch(epoch)
    /\ fpc' = "f181"
    /\ hist' = [hist EXCEPT !.nalloc = [k \in Classes |-> 0],
                            !.stamped = {}]
    /\ UNCHANGED <<desc, lock, classes, num_classes, max_classes, heap, pc,
                   loc, fin, exited, ub>>

\* line 181: if (NULL != classes)
F181 ==
    /\ Running
    /\ fpc = "f181"
    /\ IF classes.st # "null"
         THEN fpc' = "f182" /\ fin' = [fin EXCEPT !.i = 0]
         ELSE fpc' = "f193" /\ fin' = fin
    /\ UNCHANGED <<desc, epoch, lock, classes, num_classes, max_classes,
                   heap, pc, loc, exited, ub, hist>>

\* free(p) of a block: p must be the start of a live block
CanFree(p) == p[1] \in Blocks /\ heap[p[1]].live /\ p[2] = 0

\* FinalizeCount that stops one entry early.
FinalizeCountShort == num_classes - 1

\* the bound of the loop of line 182
FinalizeCount == num_classes

\* lines 182-186: one iteration of the loop freeing classes[i]
F182 ==
    /\ Running
    /\ fpc = "f182"
    /\ IF fin.i < FinalizeCount
         THEN IF classes.st = "live" /\ fin.i < Len(classes.arr)
                THEN LET p == classes.arr[fin.i + 1] IN
                     /\ IF p = NULLP
                          THEN heap' = heap /\ ub' = ub
                          ELSE IF CanFree(p)
                                 THEN /\ heap' = [heap EXCEPT
                                                    ![p[1]] = FreeBlock]
                                      /\ ub' = ub
                                 ELSE heap' = heap /\ ub' = "bad free"
                     /\ fin' = [fin EXCEPT !.i = @ + 1]
                     /\ fpc' = fpc
                ELSE /\ ub' = "bad array read"
                     /\ UNCHANGED <<heap, fin, fpc>>
         ELSE /\ fpc' = "f187"
              /\ UNCHANGED <<heap, fin, ub>>
    /\ UNCHANGED <<desc, epoch, lock, classes, num_classes, max_classes,
                   pc, loc, exited, hist>>

\* line 187: free(classes)
F187 ==
    /\ Running
    /\ fpc = "f187"
    /\ IF classes.st = "live"
         THEN classes' = [st |-> "freed", arr |-> <<>>] /\ ub' = ub
         ELSE /\ classes' = classes
              /\ ub' = IF classes.st = "freed" THEN "bad free" ELSE ub
    /\ fpc' = "f188"
    /\ UNCHANGED <<desc, epoch, lock, num_classes, max_classes, heap, pc,
                   loc, fin, exited, hist>>

\* line 188: classes = NULL
F188 ==
    /\ Running
    /\ fpc = "f188"
    /\ classes' = [st |-> "null", arr |-> <<>>]
    /\ fpc' = "f189"
    /\ UNCHANGED <<desc, epoch, lock, num_classes, max_classes, heap, pc,
                   loc, fin, exited, ub, hist>>

\* line 189: num_classes = 0
F189 ==
    /\ Running
    /\ fpc = "f189"
    /\ num_classes' = 0
    /\ fpc' = "f190"
    /\ UNCHANGED <<desc, epoch, lock, classes, max_classes, heap, pc, loc,
                   fin, exited, ub, hist>>

\* line 190: max_classes = 0
F190 ==
    /\ Running
    /\ fpc = "f190"
    /\ max_classes' = 0
    /\ fpc' = "f193"
    /\ UNCHANGED <<desc, epoch, lock, classes, num_classes, heap, pc, loc,
                   fin, exited, ub, hist>>

\* line 193: return PRTE_SUCCESS
F193 ==
    /\ Running
    /\ fpc = "f193"
    /\ fin' = [fin EXCEPT !.rc = PRTE_SUCCESS]
    /\ fpc' = "fret"
    /\ UNCHANGED <<desc, epoch, lock, classes, num_classes, max_classes,
                   heap, pc, loc, exited, ub, hist>>

\* the caller goes on after prte_class_finalize has returned
FinReturn ==
    /\ Running
    /\ fpc = "fret"
    /\ fpc' = "idle"
    /\ fin' = Fin0
    /\ UNCHANGED <<desc, epoch, lock, classes, num_classes, max_classes,
                   heap, pc, loc, exited, ub, hist>>

----------------------------------------------------------------------------
(* The specifications *)

\* The state after program start: the static initialisers of lines 46-67,
\* for the declared classes ds, n threads and a heap of b blocks.
InitWith(ds, n, b) ==
    /\ desc \in ds
    /\ epoch = 1
    /\ lock = 0
    /\ classes = [st |-> "null", arr |-> <<>>]
    /\ num_classes = 0
    /\ max_classes = 0
    /\ heap = [x \in 1..b |-> FreeBlock]
    /\ pc = [t \in 1..n |-> "idle"]
    /\ loc = [t \in 1..n |-> Loc0]
    /\ fpc = "idle"
    /\ fin = Fin0
    /\ exited = "no"
    /\ ub = "no"
    /\ hist = [nalloc |-> [k \in DOMAIN desc |-> 0],
               stamped |-> {},
               first |-> [k \in DOMAIN desc |-> <<>>],
               finalized |-> FALSE,
               overlap |-> FALSE]

\* a step of thread t inside prte_class_initialize
Step(t) ==
    \/ L92(t) \/ L95(t) \/ L101(t) \/ L111(t) \/ L129(t) \/ L142(t)
    \/ L147(t) \/ L158(t) \/ L160(t) \/ L198(t) \/ L202(t) \/ L165(t)

\* a step inside prte_class_finalize
FinStep ==
    \/ F175 \/ F181 \/ F182 \/ F187 \/ F188 \/ F189 \/ F190 \/ F193
    \/ FinReturn

\* no call of prte_class_initialize is in progress
Quiescent == \A t \in Threads : pc[t] = "idle"

Init == InitWith({LineHierarchy(NumClasses)}, NumThreads, NumClasses + 1)

\* Concurrent callers of prte_class_initialize; prte_class_finalize is
\* called as its contract asks, when no prte_class_initialize is in
\* progress, and none starts before it has returned.  It is called once
\* (the shutdown of the process), and the callers go on after it; SpecWrap
\* has it called any number of times.
Next ==
    \/ \E t \in Threads, k \in Classes : fpc = "idle" /\ Call(t, k)
    \/ \E t \in Threads : Step(t)
    \/ Quiescent /\ ~hist.finalized /\ FinCall
    \/ FinStep

Spec == Init /\ [][Next]_vars

\* Concurrent callers in one epoch under fair scheduling: a thread inside
\* prte_class_initialize that can take a step eventually takes one, and
\* prte_mutex_lock is fair: a thread waiting for a lock that is free again
\* and again gets it.
NextFair ==
    \/ \E t \in Threads, k \in Classes : Call(t, k)
    \/ \E t \in Threads : Step(t)

Fairness ==
    \A t \in 1..NumThreads : WF_vars(Step(t)) /\ SF_vars(L95(t))

SpecFair == Init /\ [][NextFair]_vars /\ Fairness

\* One caller, and prte_class_finalize called (when no call is in progress)
\* any number of times: the epoch reaches INT_MAX and wraps.
InitWrap == InitWith({LineHierarchy(NumClasses)}, 1, NumClasses + 1)

NextWrap ==
    \/ \E t \in Threads, k \in Classes : fpc = "idle" /\ Call(t, k)
    \/ \E t \in Threads : Step(t)
    \/ Quiescent /\ FinCall
    \/ FinStep

SpecWrap == InitWrap /\ [][NextWrap]_vars

\* prte_class_finalize called at any time, also while a call of
\* prte_class_initialize is in progress.
\* The descriptor raced on is prte_object_t_class, with one block for its
\* arrays.
InitRace == InitWith({LineHierarchy(0)}, RaceThreads, 1)

NextRace ==
    \/ \E t \in Threads, k \in Classes : Call(t, k)
    \/ \E t \in Threads : Step(t)
    \/ epoch <= MaxFinalize /\ FinCall
    \/ FinStep

SpecRace == InitRace /\ [][NextRace]_vars

\* One caller and more declared classes than one increment of the registry
\* array, computed one after the other in the order of their declaration;
\* prte_class_finalize is called once, at any point between two calls.
InitGrow ==
    InitWith({LineHierarchy(increment + GrowClasses)}, 1,
             increment + GrowClasses + 1)

NextGrow ==
    \/ \E t \in Threads, k \in Classes :
          /\ fpc = "idle"
          /\ \A j \in Classes : (j # Root /\ j < k) => Test92(j)
          /\ Call(t, k)
    \/ \E t \in Threads : Step(t)
    \/ Quiescent /\ ~hist.finalized /\ FinCall
    \/ FinStep

SpecGrow == InitGrow /\ [][NextGrow]_vars

\* One caller and one epoch, for every line of up to MaxDepth declared
\* classes.  The calls are on the two deepest classes of the line, in
\* either order; the shorter lines are hierarchies of their own, so every
\* class of every line is computed, alone and after another one.
InitChain ==
    InitWith(UNION {AllHierarchies(n) : n \in 1..MaxDepth}, 1, MaxDepth + 1)

NextChain ==
    \/ \E t \in Threads, k \in Classes :
          k >= Cardinality(Classes) - 2 /\ Call(t, k)
    \/ \E t \in Threads : Step(t)

SpecChain == InitChain /\ [][NextChain]_vars

----------------------------------------------------------------------------
(* Properties *)

\* the positions of prte_class_initialize between the malloc and the unlock
Computing == {"l142", "l147", "l158", "l160", "l198", "l202", "l165"}

\* the positions after save_class has stored the block
Saved == {"l165"}

\* the threads that are inside the computation of class k
Computers(k) == {t \in Threads : pc[t] \in Computing /\ loc[t].cls = k}

\* the live blocks that were allocated for class k
BlocksOf(k) == {b \in Blocks : heap[b].live /\ heap[b].owner = k}

\* the used slots of the registry that hold a block allocated for class k
EntriesOf(k) ==
    {j \in 1..num_classes :
        /\ j <= Len(classes.arr)
        /\ classes.arr[j][1] \in Blocks
        /\ heap[classes.arr[j][1]].owner = k}

\* the constructors declared from the top of k's line down to k
RECURSIVE ExpectedConstructors(_)
ExpectedConstructors(k) ==
    IF k = NoClass THEN <<>>
    ELSE ExpectedConstructors(desc[k].cls_parent)
         \o (IF desc[k].cls_construct # NULLFN
               THEN <<desc[k].cls_construct>> ELSE <<>>)

\* the destructors declared from k up to the top of its line
RECURSIVE ExpectedDestructors(_)
ExpectedDestructors(k) ==
    IF k = NoClass THEN <<>>
    ELSE (IF desc[k].cls_destruct # NULLFN
            THEN <<desc[k].cls_destruct>> ELSE <<>>)
         \o ExpectedDestructors(desc[k].cls_parent)

\* the two arrays of class k are those its declarations ask for, in a live
\* block that holds nothing else
ChainsAsDeclared(k) ==
    LET p == desc[k].cls_construct_array
        cs == ExpectedConstructors(k) \o <<NULLFN>>
        ds == ExpectedDestructors(k) \o <<NULLFN>>
    IN /\ ValidPtr(heap, p)
       /\ p[2] = 0
       /\ heap[p[1]].mem = cs \o ds
       /\ ReadChain(heap, p) = cs
       /\ ReadChain(heap, desc[k].cls_destruct_array) = ds

\* C1: with concurrent callers and no prte_class_finalize in progress, each
\* descriptor is computed by at most one thread per epoch: at most one
\* block is allocated for it, at most one thread is inside its computation,
\* the registry holds at most one entry for it, and once the computing
\* thread has stored the block there is exactly one block and one entry,
\* while the other callers are still at one of the two tests or have
\* returned.
C1_OneComputationPerEpoch ==
    fpc = "idle" => \A k \in Classes :
        /\ hist.nalloc[k] <= 1
        /\ Cardinality(Computers(k)) <= 1
        /\ Cardinality(BlocksOf(k)) = hist.nalloc[k]
        /\ Cardinality(EntriesOf(k)) <= 1
        /\ (hist.nalloc[k] = 1 /\ Computers(k) \subseteq {t \in Threads : pc[t] \in Saved})
              => Cardinality(EntriesOf(k)) = 1
        /\ \A t \in Threads :
              (loc[t].cls = k /\ pc[t] \notin {"idle", "l92", "l95", "l101"})
                 => t \in Computers(k) \/ pc[t] \in {"l111", "l129"}

\* C1 witness: a thread has computed class k and returned, and a second
\* caller that found k stale at line 92 now holds the lock at the second
\* test, which will send it back.
C1_Witness ==
    \E t \in Threads :
        /\ pc[t] = "l101"
        /\ loc[t].cls # Root
        /\ desc[loc[t].cls].cls_initialized = epoch
        /\ hist.nalloc[loc[t].cls] = 1
        /\ Cardinality(EntriesOf(loc[t].cls)) = 1

\* C2: once line 160 has stamped a descriptor, its constructor array holds
\* exactly the declared constructors of its line from the top class down to
\* it, then NULL, and its destructor array exactly the declared destructors
\* from it up to the top class, then NULL.
C2_ChainsInOrder ==
    \A k \in hist.stamped : ChainsAsDeclared(k)

\* C2 witness: the line 1 <- 2 <- 3 with constructors on 1 and 3 and
\* destructors on 2 and 3, class 3 computed.
C2_Witness ==
    /\ 3 \in hist.stamped
    /\ desc[1].cls_parent = NoClass
    /\ ReadChain(heap, desc[3].cls_construct_array)
          = <<Ctor(1), Ctor(3), NULLFN>>
    /\ ReadChain(heap, desc[3].cls_destruct_array)
          = <<Dtor(3), Dtor(2), NULLFN>>

\* C3: a call on a descriptor that was stamped in the current epoch (no
\* prte_class_finalize since) returns at line 93 and changes nothing: no
\* block is allocated, the registry and the descriptors (stamp, depth,
\* arrays) stay as they are, the lock is not touched, and the descriptor
\* has been computed exactly once in this epoch.
C3_SecondCallChangesNothing ==
    [][\A t \in Threads :
          (/\ pc[t] = "l92"
           /\ loc[t].cls \in hist.stamped
           /\ desc[loc[t].cls].cls_initialized = epoch
           /\ pc'[t] # "l92")
          => (/\ pc'[t] = "idle"
              /\ UNCHANGED <<desc, heap, classes, num_classes, max_classes,
                             lock, epoch, hist>>
              /\ hist.nalloc[loc[t].cls] = 1)]_vars

\* C3 witness: a caller is at line 92 with a descriptor that was computed
\* earlier in this epoch, and nobody else is inside a call.
C3_Witness ==
    \E t \in Threads :
        /\ pc[t] = "l92"
        /\ loc[t].cls \in hist.stamped
        /\ desc[loc[t].cls].cls_initialized = epoch
        /\ hist.nalloc[loc[t].cls] = 1
        /\ \A u \in Threads \ {t} : pc[u] = "idle"

\* the positions of prte_class_initialize after the depth has been counted
Counted == {"l129"} \cup Computing

\* C4: when a descriptor that was computed before is computed again (after
\* a prte_class_finalize), the depth is the one of the first computation,
\* and at the end of the computation the two arrays read as they did after
\* the first one, in a live block allocated in this epoch, which is the
\* last entry of the registry.
C4_RecomputedAsBefore ==
    \A t \in Threads :
        LET k == loc[t].cls IN
        (pc[t] \in Counted /\ hist.first[k] # <<>>)
        => /\ desc[k].cls_depth = hist.first[k][1].depth
           /\ pc[t] = "l165"
                => /\ Snapshot(k) = hist.first[k][1]
                   /\ hist.nalloc[k] = 1
                   /\ BlocksOf(k) = {desc[k].cls_construct_array[1]}
                   /\ classes.st = "live"
                   /\ num_classes >= 1
                   /\ classes.arr[num_classes] = desc[k].cls_construct_array

\* C4 witness: a declared class is at the end of its second computation,
\* after a prte_class_finalize.
C4_Witness ==
    \E t \in Threads :
        /\ pc[t] = "l165"
        /\ loc[t].cls # Root
        /\ hist.first[loc[t].cls] # <<>>
        /\ hist.finalized

\* C5: when prte_class_finalize returns, every descriptor whose stamp was
\* the current epoch when it was called has a stamp that differs from the
\* new epoch, also when the epoch has wrapped from INT_MAX to 1.
C5_CurrentBecomesStale ==
    fpc = "fret" =>
        \A k \in fin.preCurrent : desc[k].cls_initialized # epoch

\* C5 witness: prte_class_finalize returns from the call that wrapped the
\* epoch, and prte_object_t_class and a declared class were current at the
\* call.
C5_Witness ==
    /\ fpc = "fret"
    /\ fin.preEpoch = INT_MAX
    /\ Root \in fin.preCurrent
    /\ fin.preCurrent # {Root}

\* C6: the call of prte_class_finalize that finds the epoch at INT_MAX sets
\* it to 1, and every declared class that was stale at that call is still
\* stale at its return (so that its next prte_class_initialize computes it).
C6_StaleStaysStaleOverWrap ==
    (fpc = "fret" /\ fin.preEpoch = INT_MAX)
    => /\ epoch = 1
       /\ \A k \in Classes \ (fin.preCurrent \cup {Root}) :
             desc[k].cls_initialized # epoch

C8_FinalizeEmptiesRegistry ==
    /\ ub = "no"
    /\ fpc = "fret"
         => /\ fin.rc = PRTE_SUCCESS
            /\ classes = [st |-> "null", arr |-> <<>>]
            /\ num_classes = 0
            /\ max_classes = 0
            /\ \A b \in Blocks : ~heap[b].live
            /\ fin.i = Cardinality(fin.preBlocks)
            /\ epoch # fin.preEpoch
            /\ epoch = IF fin.preEpoch = INT_MAX THEN 1 ELSE fin.preEpoch + 1

\* C8 witness: prte_class_finalize returns after it was called with a
\* block recorded, and its loop has freed it.
C8_Witness ==
    /\ fpc = "fret"
    /\ fin.preBlocks # {}
    /\ fin.i >= 1

\* class k was stamped since the epoch last changed, its stamp is the
\* current epoch, and the block its constructor array points to has been
\* freed (or handed out again for another class)
StampedButFreed(k) ==
    /\ k \in hist.stamped
    /\ desc[k].cls_initialized = epoch
    /\ LET p == desc[k].cls_construct_array IN
          \/ p[1] \notin Blocks
          \/ ~heap[p[1]].live
          \/ heap[p[1]].owner # k

C10_AllocationFailureIsFatal ==
    /\ exited = "malloc"
         => /\ lock = 0
            /\ num_classes = Cardinality({b \in Blocks : heap[b].live})
            /\ \E t \in Threads :
                  /\ pc[t] = "l129"
                  /\ desc[loc[t].cls].cls_initialized # epoch
                  /\ desc[loc[t].cls].cls_construct_array = NULLP
                  /\ BlocksOf(loc[t].cls) = {}
                  /\ EntriesOf(loc[t].cls) = {}
    /\ exited = "realloc" => \E t \in Threads : pc[t] = "l198"
    /\ exited # "no" => ~ENABLED Next
    /\ \A k \in Classes :
          (k \in hist.stamped /\ desc[k].cls_initialized = epoch)
             => ChainsAsDeclared(k)

\* C10 witness: the process has exited on a failed malloc while another
\* descriptor is computed and recorded.
C10_Witness ==
    /\ exited = "malloc"
    /\ num_classes >= 1

\* C11: a caller at the first test whose descriptor is stamped with the
\* current epoch can always take its step, whoever holds the lock, and that
\* step is the return: the lock is not taken, not waited for and not
\* changed.
C11_FastPathTakesNoLock ==
    /\ [](\A t \in Threads :
            (Running /\ pc[t] = "l92" /\ Test92(loc[t].cls))
               => ENABLED L92(t))
    /\ [][\A t \in Threads :
            (pc[t] = "l92" /\ Test92(loc[t].cls) /\ pc'[t] # pc[t])
               => /\ pc'[t] = "idle"
                  /\ lock' = lock
                  /\ lock # t]_vars

\* C11 witness: a caller is at the first test on a descriptor computed in
\* this epoch while another thread holds the lock inside the computation
\* of a different descriptor.
C11_Witness ==
    \E t, u \in Threads :
        /\ pc[t] = "l92"
        /\ loc[t].cls \in hist.stamped
        /\ Test92(loc[t].cls)
        /\ lock = u
        /\ pc[u] \in Computing
        /\ loc[u].cls # loc[t].cls

\* the positions of prte_class_initialize from the reset of the depth up to
\* the write of the stamp
BeforeStamp == {"l111", "l129", "l142", "l147", "l158", "l160"}

\* C12: whenever a descriptor that was computed in this epoch carries the
\* stamp of the current epoch, no thread is still before line 160 in its
\* computation, its depth is set and both arrays are complete and
\* terminated; and from then on no step writes its pointers, its depth or
\* the slots of its block.
C12_NoPartialChainExposed ==
    /\ [](\A k \in hist.stamped :
            desc[k].cls_initialized = epoch
               => /\ ChainsAsDeclared(k)
                  /\ desc[k].cls_depth = Count(k)[1]
                  /\ \A t \in Threads :
                        loc[t].cls = k => pc[t] \notin BeforeStamp)
    /\ [][\A k \in hist.stamped :
            desc[k].cls_initialized = epoch
               => /\ desc'[k] = desc[k]
                  /\ heap'[desc[k].cls_construct_array[1]]
                        = heap[desc[k].cls_construct_array[1]]]_vars

\* C12 witness: a second caller reads the stamp at line 92 while the
\* computing thread has stamped the descriptor at line 160 and has not yet
\* stored the block or released the lock; the arrays it will use hold a
\* constructor.
C12_Witness ==
    \E t, u \in Threads :
        /\ pc[t] = "l92"
        /\ pc[u] = "l198"
        /\ loc[u].cls = loc[t].cls
        /\ Test92(loc[t].cls)
        /\ Len(ReadChain(heap, desc[loc[t].cls].cls_construct_array)) >= 2

\* the number of blocks allocated for the classes of S since the epoch last
\* changed
RECURSIVE Computations(_)
Computations(S) ==
    IF S = {} THEN 0
    ELSE LET k == CHOOSE x \in S : TRUE
         IN hist.nalloc[k] + Computations(S \ {k})

\* C13: with concurrent callers and no prte_class_finalize in progress,
\* whenever the lock is free the used slots of the registry hold pairwise
\* different blocks, each the complete block of a descriptor computed and
\* stamped in the current epoch, every such descriptor has its slot, and
\* num_classes is the number of computations since the epoch last changed.
C13_RegistryHoldsTheComputedBlocks ==
    (lock = 0 /\ fpc = "idle")
    => /\ num_classes = Computations(Classes)
       /\ num_classes = Cardinality(hist.stamped)
       /\ num_classes > 0 =>
             (classes.st = "live" /\ num_classes <= Len(classes.arr))
       /\ \A i, j \in 1..num_classes :
             i # j => classes.arr[i] # classes.arr[j]
       /\ \A j \in 1..num_classes :
             \E k \in hist.stamped :
                /\ classes.arr[j] = desc[k].cls_construct_array
                /\ desc[k].cls_initialized = epoch
                /\ ChainsAsDeclared(k)
       /\ \A k \in hist.stamped : Cardinality(EntriesOf(k)) = 1

\* C13 witness: the lock is free and the registry holds the blocks of two
\* descriptors.
C13_Witness ==
    /\ lock = 0
    /\ fpc = "idle"
    /\ num_classes >= 2
    /\ Cardinality(hist.stamped) >= 2

\* C14: under fair scheduling every call of prte_class_initialize returns,
\* or the process has exited; a returning thread does not keep the lock
\* (the early return of line 103 and the return at the end release it, the
\* return of line 93 never had it); and the lock is free whenever no call
\* is in progress.
C14_CallsEndAndReleaseTheLock ==
    /\ \A t \in 1..NumThreads :
          (pc[t] # "idle") ~> (pc[t] = "idle" \/ exited # "no")
    /\ [][\A t \in 1..NumThreads :
            (pc[t] # "idle" /\ pc'[t] = "idle") => lock' # t]_vars
    /\ []((exited = "no" /\ \A t \in 1..NumThreads : pc[t] = "idle")
            => lock = 0)
    /\ [](ub = "no")

\* C14 witness: a thread waits at prte_mutex_lock for the same descriptor
\* that the holder of the lock has computed and is about to unlock; it
\* will get the lock, find the descriptor current and return early.
C14_Witness ==
    \E t, u \in Threads :
        /\ pc[t] = "l95"
        /\ lock = u
        /\ pc[u] = "l165"
        /\ loc[u].cls = loc[t].cls

\* C15: 0 <= num_classes <= max_classes and max_classes is a multiple of
\* increment; the array has max_classes slots and those from num_classes on
\* are NULL; max_classes changes only by growing by increment when
\* save_class finds num_classes = max_classes, which keeps the stored
\* entries, or by the reset of prte_class_finalize, which has set both to 0
\* when it returns.
C15_RegistryGrowsByIncrement ==
    /\ [](/\ ub = "no"
          /\ 0 <= num_classes
          /\ num_classes <= max_classes
          /\ max_classes % increment = 0
          /\ classes.st = "live"
                => /\ Len(classes.arr) = max_classes
                   /\ \A j \in (num_classes + 1)..max_classes :
                         classes.arr[j] = NULLP
          /\ (fpc = "idle" /\ exited = "no")
                => (classes.st = "null" <=> max_classes = 0)
          /\ fpc = "fret" => (num_classes = 0 /\ max_classes = 0))
    /\ [][max_classes' # max_classes
            => \/ /\ max_classes' = max_classes + increment
                  /\ num_classes = max_classes
                  /\ num_classes' = num_classes
                  /\ \E t \in Threads : pc[t] = "l198"
                  /\ classes'.st = "live"
                        => \A j \in 1..num_classes :
                              classes'.arr[j] = classes.arr[j]
               \/ /\ max_classes' = 0
                  /\ fpc = "f190"]_vars

\* C15 witness: the array has grown a second time and holds more entries
\* than one increment.
C15_Witness ==
    /\ max_classes = 2 * increment
    /\ num_classes > increment
    /\ classes.st = "live"
    /\ \A j \in 1..num_classes : classes.arr[j] # NULLP

\* the positions of prte_class_initialize after the constructors' end
\* marker is written, and those after the loop
AfterMarker == Computing \ {"l142"}
AfterLoop == AfterMarker \ {"l147"}

\* The layout of the block of thread t's class, with c declared
\* constructors and d declared destructors on its line.
LayoutOf(t) ==
    LET k == loc[t].cls
        p == desc[k].cls_construct_array
        c == Len(ExpectedConstructors(k))
        d == Len(ExpectedDestructors(k))
        mem == heap[p[1]].mem
    IN /\ loc[t].cc = c
       /\ loc[t].dc = d
       /\ ValidPtr(heap, p)
       /\ p[2] = 0
       /\ Len(mem) = c + d + 2
       /\ desc[k].cls_destruct_array = <<p[1], c + 1>>
       /\ pc[t] \in AfterMarker
             => /\ mem[c + 1] = NULLFN
                /\ loc[t].ca[1] = p[1]
                /\ loc[t].ca[2] \in 0..c
                /\ loc[t].da[1] = p[1]
                /\ loc[t].da[2] \in (c + 1)..(c + d + 1)
                /\ \A j \in 1..(c + d + 2) :
                      (mem[j] # JUNKFN)
                         <=> \/ j - 1 \in loc[t].ca[2]..c
                             \/ j - 1 \in (c + 1)..(loc[t].da[2] - 1)
                             \/ j = c + d + 2 /\ pc[t] \notin {"l147", "l158"}
       /\ pc[t] \in AfterLoop
             => /\ loc[t].ca = <<p[1], 0>>
                /\ loc[t].da = <<p[1], c + d + 1>>
       /\ pc[t] \in AfterLoop \ {"l158"}
             => /\ mem[c + d + 2] = NULLFN
                /\ \A j \in 1..(c + d + 2) : mem[j] # JUNKFN

\* C16: the block of a class with c constructors and d destructors on its
\* line has c + d + 2 slots, the destructor array starts at slot c + 1, the
\* constructors' end marker is at slot c and the destructors' at slot
\* c + d + 1; every write is inside the block and to a slot not written
\* before, the written slots are those the cursors have passed, the
\* constructor cursor ends at slot 0 and in the end every slot is written.
C16_SingleBlockLayout ==
    /\ [](/\ ub = "no"
          /\ \A t \in Threads : pc[t] \in Computing => LayoutOf(t))
    /\ [][\A b \in Blocks :
            (heap[b].live /\ heap'[b].live)
               => \A j \in 1..Len(heap[b].mem) :
                     heap'[b].mem[j] # heap[b].mem[j]
                        => heap[b].mem[j] = JUNKFN]_vars

\* C16 witness: the block of class 3 with two constructors and two
\* destructors on its line is complete: six slots, the cursor at slot 0.
C16_Witness ==
    \E t \in Threads :
        /\ pc[t] = "l160"
        /\ loc[t].cls = 3
        /\ loc[t].cc = 2
        /\ loc[t].dc = 2
        /\ loc[t].ca[2] = 0
        /\ Len(heap[loc[t].ca[1]].mem) = 6

\* C17: a step of prte_class_initialize leaves the epoch as it is, leaves
\* the name, parent, constructor, destructor and size of every descriptor
\* as they are, and writes the stamp, depth and array pointers of no
\* descriptor but the one its caller, who holds the lock, passed; the only
\* block it writes is the one allocated for that descriptor.
C17_FrameOfInitialize ==
    [][(fpc' = fpc /\ fin' = fin)
         => /\ epoch' = epoch
            /\ \A k \in Classes :
                  /\ desc'[k].cls_name = desc[k].cls_name
                  /\ desc'[k].cls_parent = desc[k].cls_parent
                  /\ desc'[k].cls_construct = desc[k].cls_construct
                  /\ desc'[k].cls_destruct = desc[k].cls_destruct
                  /\ desc'[k].cls_sizeof = desc[k].cls_sizeof
                  /\ desc'[k] # desc[k]
                        => \E t \in Threads : lock = t /\ loc[t].cls = k
            /\ \A b \in Blocks :
                  heap'[b] # heap[b]
                     => \E t \in Threads :
                           /\ lock = t
                           /\ heap'[b].owner = loc[t].cls
                           /\ desc'[loc[t].cls].cls_construct_array[1] = b]_vars

\* C17 witness: class 3 has been computed and its call has returned while
\* its ancestors 1 and 2 are as declared: not stamped, depth 0, no arrays.
C17_Witness ==
    /\ 3 \in Classes
    /\ \A t \in Threads : pc[t] = "idle"
    /\ desc[3].cls_initialized = epoch
    /\ desc[3].cls_depth >= 3
    /\ \A k \in {1, 2} :
          /\ desc[k].cls_initialized = 0
          /\ desc[k].cls_depth = 0
          /\ desc[k].cls_construct_array = NULLP
    /\ desc[Root] = prte_object_t_class

\* C18: whenever a call of prte_class_initialize returns (at line 93, at
\* line 103 or at the end), in any epoch and for any descriptor,
\* prte_object_t_class included, the descriptor's cls_depth is the number
\* of classes from it up to the top of its line, itself included.
C18_DepthIsChainLength ==
    [][\A t \in Threads :
         (pc[t] # "idle" /\ pc'[t] = "idle")
            => desc'[loc[t].cls].cls_depth = Count(loc[t].cls)[1]]_vars

\* the registry holds pointer p in one of its used slots
Recorded(p) ==
    /\ classes.st = "live"
    /\ \E j \in 1..num_classes : j <= Len(classes.arr) /\ classes.arr[j] = p

\* C19: when no call of prte_class_initialize or prte_class_finalize is in
\* progress and none has ever overlapped another, every descriptor whose
\* stamp is the current epoch and whose constructor array is not NULL
\* points to the start of a live block that the registry holds, and its
\* destructor array points into the same block; also after the epoch has
\* wrapped.
C19_NoDanglingChain ==
    (Quiescent /\ fpc = "idle" /\ ~hist.overlap /\ exited = "no")
    => \A k \in Classes :
          (desc[k].cls_initialized = epoch
             /\ desc[k].cls_construct_array # NULLP)
          => /\ ValidPtr(heap, desc[k].cls_construct_array)
             /\ heap[desc[k].cls_construct_array[1]].owner = k
             /\ Recorded(desc[k].cls_construct_array)
             /\ desc[k].cls_destruct_array[1] = desc[k].cls_construct_array[1]

====
